---- MODULE Spec2Model ----
(***************************************************************************)
(* Model of sentry_usage_accountant: the time-quantizing UsageAccumulator  *)
(* (src/src/accumulator.rs) and the UsageAccountant that drives it and     *)
(* hands drained entries to a Producer (src/src/accountant.rs).            *)
(*                                                                         *)
(* Time is counted in ticks; TicksPerSecond ticks make one second, so that *)
(* sub-second instants and granularities exist as they do with chrono's    *)
(* nanosecond resolution.  Amounts are unsigned integers of AmountBits     *)
(* bits, the scaled-down image of u64.  Durations are non-negative: a      *)
(* negative granularity is not modelled.                                   *)
(***************************************************************************)
EXTENDS Integers, Sequences, FiniteSets, TLC

VARIABLES
    usage_batch,      \* UsageAccumulator.usage_batch : UsageKey -> amount
    granularity,      \* UsageAccumulator.granularity, in ticks
    first_timestamp,  \* UsageAccumulator.first_timestamp : {} (None) or {q}
    messages,         \* payloads the Producer accepted, in order
    producer,         \* which Producer the accountant was built with
    overflow_checks,  \* build profile: are arithmetic overflow checks on
    pc,               \* "alive", "panicked" (unwinding) or "dropped"
    batch_log,        \* history: reports recorded since the last drain
    drained,          \* map returned by the last UsageAccumulator.flush
    drain_logs,       \* history: batch_log as it was at each drain, in order
    attempts,         \* history: every Producer.send call made so far
    nrecords,         \* history: number of completed record calls
    ndrains,          \* history: number of drains
    last              \* history: what the last operation did and returned

vars == <<usage_batch, granularity, first_timestamp, messages, producer,
          overflow_checks, pc, batch_log, drained, drain_logs, attempts,
          nrecords, ndrains, last>>

----------------------------------------------------------------------------
(* Bounds of the model *)

TicksPerSecond == 2
AmountBits == 3
PreEpochTicks == 1
MaxTime == 2
MaxGranularity == 2
MaxRecords == 2
MaxDrains == 2

MinTime == 0 - PreEpochTicks
Times == MinTime..MaxTime
Granularities == 0..MaxGranularity
U64Modulus == 2 ^ AmountBits
U64Max == U64Modulus - 1
Amounts == {0, 1, U64Max}

----------------------------------------------------------------------------
(* Types of the program *)

UsageUnit == {"Milliseconds", "Bytes", "BytesSec"}

None == {}
Some(x) == {x}
Unwrap(opt) == CHOOSE x \in opt : TRUE

UsageKey(quantized_timestamp, resource_id, app_feature, unit) ==
    [quantized_timestamp |-> quantized_timestamp,
     resource_id |-> resource_id,
     app_feature |-> app_feature,
     unit |-> unit]

EmptyBatch == [k \in {} |-> 0]

\* The (resource_id, app_feature, unit) triples the callers report for: one
\* base triple and one that differs from it in each single field.
Sources == {<<"r1", "f1", "Bytes">>, <<"r1", "f2", "Bytes">>,
            <<"r2", "f1", "Bytes">>, <<"r1", "f1", "BytesSec">>}

Producers == {"DummyProducer", "KafkaProducer"}

----------------------------------------------------------------------------
(* UsageAccumulator (src/src/accumulator.rs) *)

\* Rust's % on signed integers: the remainder has the sign of the dividend.
RustRem(a, b) == IF a >= 0 THEN a % b ELSE 0 - ((0 - a) % b)

Abs(a) == IF a >= 0 THEN a ELSE 0 - a

\* Mutant: truncation towards zero, so that an instant before the Unix epoch
\* moves forward to the end of its span.
duration_trunc_TowardsZero(usage_time, span) ==
    IF span <= 0
    THEN [ok |-> FALSE, value |-> usage_time]
    ELSE [ok |-> TRUE, value |-> usage_time - RustRem(usage_time, span)]

\* Mutant: duration_round in place of duration_trunc, the instant moved to
\* the nearest span boundary.
duration_trunc_Rounds(usage_time, span) ==
    IF span <= 0
    THEN [ok |-> FALSE, value |-> usage_time]
    ELSE [ok |-> TRUE,
          value |-> ((2 * usage_time + span) \div (2 * span)) * span]

\* chrono's DurationRound::duration_trunc as record() uses it: an Err for a
\* span that is not positive, else the instant moved back to the start of
\* its span (delta_down is the Rust remainder, so an instant before the Unix
\* epoch moves back by span - |delta_down|).
duration_trunc(usage_time, span) ==
    IF span <= 0
    THEN [ok |-> FALSE, value |-> usage_time]
    ELSE LET delta_down == RustRem(usage_time, span)
         IN  [ok |-> TRUE,
              value |-> IF delta_down = 0 THEN usage_time
                        ELSE IF delta_down > 0 THEN usage_time - delta_down
                        ELSE usage_time - (span - Abs(delta_down))]

\* Mutant: the truncation is made for every granularity, zero too.
TruncPanics_NoZeroCheck(usage_time, g) == ~duration_trunc(usage_time, g).ok

\* record(), lines 56-60: is the unwrap() of the truncation reached with an Err
TruncPanics(usage_time, g) == g # 0 /\ ~duration_trunc(usage_time, g).ok

\* record(), lines 56-60
Quantize(usage_time, g) ==
    IF g = 0 THEN usage_time ELSE duration_trunc(usage_time, g).value

\* Mutant: the test of the marker is inverted.
RecordFirstTimestamp_Inverted(first, quantized_timestamp) ==
    IF first # None THEN Some(quantized_timestamp) ELSE first

\* record(), lines 62-64
RecordFirstTimestamp(first, quantized_timestamp) ==
    IF first = None THEN Some(quantized_timestamp) ELSE first

\* record(), line 73: entry(key).or_default()
EntryOrDefault(batch, key) ==
    IF key \in DOMAIN batch THEN batch ELSE batch @@ (key :> 0)

\* record(), line 74: does `*value += amount` leave the range of u64
AddOverflows(value, amount) == value + amount > U64Max

\* record(), line 74: `*value += amount` on an unsigned 64-bit integer when
\* the build does not trap on overflow
AddAssign(value, amount) == (value + amount) % U64Modulus

\* Mutant: a table that is not empty is ready whatever the time (|| for &&).
should_flush_Or(batch, first, g, current_time) ==
    IF first = None
    THEN FALSE
    ELSE Cardinality(DOMAIN batch) > 0 \/ current_time - Unwrap(first) >= g

\* Mutant: the threshold itself is not yet ready (> for >=).
should_flush_Strict(batch, first, g, current_time) ==
    IF first = None
    THEN FALSE
    ELSE Cardinality(DOMAIN batch) > 0 /\ current_time - Unwrap(first) > g

\* Mutant: a flush is due only at the instant the granularity has passed.
should_flush_Exactly(batch, first, g, current_time) ==
    IF first = None
    THEN FALSE
    ELSE Cardinality(DOMAIN batch) > 0 /\ current_time - Unwrap(first) = g

\* should_flush(), lines 82-89
should_flush(batch, first, g, current_time) ==
    IF first = None
    THEN FALSE
    ELSE Cardinality(DOMAIN batch) > 0 /\ current_time - Unwrap(first) >= g

\* Mutant: the drain returns the table without emptying it.
TakeBatch_Keeps(batch) == batch

\* flush(), line 94: what mem::take leaves in usage_batch
TakeBatch(batch) == EmptyBatch

\* Mutant: the drain does not clear the marker.
TakeFirstTimestamp_Keeps(first) == first

\* flush(), line 93: what is left in first_timestamp
TakeFirstTimestamp(first) == None

\* A report as the history keeps it: the arguments of a record call that
\* returned, and the key the call used.
Report(usage_time, resource_id, app_feature, amount, unit, key) ==
    [usage_time |-> usage_time, resource_id |-> resource_id,
     app_feature |-> app_feature, amount |-> amount, unit |-> unit,
     key |-> key]

NoOp == [op |-> "new", time |-> 0, should |-> FALSE, flushed |-> FALSE,
         result |-> "Ok", from |-> 0, skipped |-> {}]

TypeOK ==
    /\ granularity \in Granularities
    /\ producer \in Producers
    /\ overflow_checks \in BOOLEAN
    /\ pc \in {"alive", "panicked", "dropped"}
    /\ \A k \in DOMAIN usage_batch : usage_batch[k] \in 0..U64Max
    /\ nrecords \in 0..MaxRecords
    /\ ndrains \in 0..(MaxDrains + MaxRecords + 1)

\* UsageAccumulator::new / UsageAccountant::new, for every granularity,
\* producer and build profile
Init ==
    /\ usage_batch = EmptyBatch
    /\ granularity \in Granularities
    /\ first_timestamp = None
    /\ messages = <<>>
    /\ producer \in Producers
    /\ overflow_checks \in BOOLEAN
    /\ pc = "alive"
    /\ batch_log = <<>>
    /\ drained = EmptyBatch
    /\ drain_logs = <<>>
    /\ attempts = <<>>
    /\ nrecords = 0
    /\ ndrains = 0
    /\ last = NoOp

\* UsageAccumulator::record called directly
AccRecord(usage_time, resource_id, app_feature, amount, usage_unit) ==
    /\ pc = "alive"
    /\ nrecords < MaxRecords
    /\ IF TruncPanics(usage_time, granularity)
       THEN /\ pc' = "panicked"
            /\ last' = [NoOp EXCEPT !.op = "record", !.time = usage_time,
                                    !.result = "panic at unwrap"]
            /\ UNCHANGED <<usage_batch, first_timestamp, batch_log, nrecords>>
       ELSE LET quantized_timestamp == Quantize(usage_time, granularity)
                first == RecordFirstTimestamp(first_timestamp,
                                              quantized_timestamp)
                key == UsageKey(quantized_timestamp, resource_id,
                                app_feature, usage_unit)
                batch == EntryOrDefault(usage_batch, key)
            IN  /\ first_timestamp' = first
                /\ IF AddOverflows(batch[key], amount) /\ overflow_checks
                   THEN /\ usage_batch' = batch
                        /\ pc' = "panicked"
                        /\ last' = [NoOp EXCEPT !.op = "record",
                                                !.time = usage_time,
                                                !.result = "panic"]
                        /\ UNCHANGED <<batch_log, nrecords>>
                   ELSE /\ usage_batch' =
                              [batch EXCEPT
                                 ![key] = AddAssign(batch[key], amount)]
                        /\ pc' = pc
                        /\ nrecords' = nrecords + 1
                        /\ batch_log' = Append(batch_log,
                              Report(usage_time, resource_id,
                                     app_feature, amount, usage_unit, key))
                        /\ last' = [NoOp EXCEPT !.op = "record",
                                                !.time = usage_time]
    /\ UNCHANGED <<granularity, messages, producer, overflow_checks,
                   drained, drain_logs, attempts, ndrains>>

\* UsageAccumulator::should_flush called directly
AccShouldFlush(current_time) ==
    /\ pc = "alive"
    /\ last' = [NoOp EXCEPT !.op = "should_flush", !.time = current_time,
                  !.should = should_flush(usage_batch, first_timestamp,
                                          granularity, current_time)]
    /\ UNCHANGED <<usage_batch, granularity, first_timestamp, messages,
                   producer, overflow_checks, pc, batch_log, drained,
                   drain_logs, attempts, nrecords, ndrains>>

\* UsageAccumulator::flush called directly
AccFlush ==
    /\ pc = "alive"
    /\ ndrains < MaxDrains
    /\ first_timestamp' = TakeFirstTimestamp(first_timestamp)
    /\ usage_batch' = TakeBatch(usage_batch)
    /\ drained' = usage_batch
    /\ drain_logs' = Append(drain_logs, batch_log)
    /\ batch_log' = <<>>
    /\ ndrains' = ndrains + 1
    /\ last' = [NoOp EXCEPT !.op = "flush", !.flushed = TRUE]
    /\ UNCHANGED <<granularity, messages, producer, overflow_checks, pc,
                   attempts, nrecords>>

NextAccumulator ==
    \/ \E usage_time \in Times, source \in Sources, amount \in Amounts :
          AccRecord(usage_time, source[1], source[2], amount, source[3])
    \/ \E current_time \in Times : AccShouldFlush(current_time)
    \/ AccFlush

SpecAccumulator == Init /\ [][NextAccumulator]_vars

----------------------------------------------------------------------------
(* UsageAccountant (src/src/accountant.rs) *)

\* Mutant: the instant is put on the wire in ticks, not in seconds.
timestamp_InTicks(quantized_timestamp) == quantized_timestamp

\* DateTime::timestamp(): whole seconds since the Unix epoch, rounded down
timestamp(quantized_timestamp) == quantized_timestamp \div TicksPerSecond

\* #[serde(rename_all = "snake_case")] on UsageUnit
SerializeUnit(unit) ==
    CASE unit = "Milliseconds" -> "milliseconds"
      [] unit = "Bytes" -> "bytes"
      [] unit = "BytesSec" -> "bytes_sec"

\* flush(), lines 98-104
Message(key, amount) ==
    [timestamp |-> timestamp(key.quantized_timestamp),
     shared_resource_id |-> key.resource_id,
     app_feature |-> key.app_feature,
     usage_unit |-> key.unit,
     amount |-> amount]

\* flush(), line 106: serde_json::to_vec of a Message; every field of the
\* struct has a JSON form, so the result is always Ok
to_vec(message) ==
    [ok |-> TRUE,
     payload |-> [timestamp |-> message.timestamp,
                  shared_resource_id |-> message.shared_resource_id,
                  app_feature |-> message.app_feature,
                  usage_unit |-> SerializeUnit(message.usage_unit),
                  amount |-> message.amount]]

\* The orders in which a HashMap of these keys can be iterated
Orders(keys) ==
    {order \in [1..Cardinality(keys) -> keys] :
        \A i, j \in 1..Cardinality(keys) : order[i] = order[j] => i = j}

\* Can the Producer's send return an Err: DummyProducer is Infallible
MayFail(p) == p # "DummyProducer"

\* Mutant: the loop goes on to the next entry after a failing send.
RECURSIVE SendLoop_Continues(_, _, _, _, _)
SendLoop_Continues(order, flushed_content, fail_at, drain, by) ==
    IF order = <<>>
    THEN <<>>
    ELSE LET key == Head(order)
             message == Message(key, flushed_content[key])
             ser == to_vec(message)
             call == [drain |-> drain, by |-> by, key |-> key,
                      payload |-> ser.payload, ok |-> fail_at # 1]
         IN  IF ser.ok
             THEN <<call>> \o
                  SendLoop_Continues(Tail(order), flushed_content,
                                     fail_at - 1, drain, by)
             ELSE SendLoop_Continues(Tail(order), flushed_content, fail_at,
                                     drain, by)

\* flush(), lines 97-109: the Producer.send calls the for loop makes over
\* flushed_content taken in `order`, when the send call number fail_at of this
\* flush returns Err (0: none does).  `?` leaves the loop at the failing send.
\* Each call is kept with the number of the drain and the operation (`by`)
\* it belongs to.
RECURSIVE SendLoop(_, _, _, _, _)
SendLoop(order, flushed_content, fail_at, drain, by) ==
    IF order = <<>>
    THEN <<>>
    ELSE LET key == Head(order)
             message == Message(key, flushed_content[key])
             ser == to_vec(message)
             call == [drain |-> drain, by |-> by, key |-> key,
                      payload |-> ser.payload, ok |-> fail_at # 1]
         IN  IF ser.ok
             THEN IF fail_at = 1
                  THEN <<call>>
                  ELSE <<call>> \o
                       SendLoop(Tail(order), flushed_content,
                                IF fail_at = 0 THEN 0 ELSE fail_at - 1,
                                drain, by)
             ELSE SendLoop(Tail(order), flushed_content, fail_at, drain, by)

Failed(calls) == calls # <<>> /\ ~calls[Len(calls)].ok

\* flush(), lines 107 and 110: the Result the flush returns
FlushResult(calls) == IF Failed(calls) THEN "Err" ELSE "Ok"

Accepted(calls) ==
    LET ok == SelectSeq(calls, LAMBDA c : c.ok)
    IN  [i \in 1..Len(ok) |-> ok[i].payload]

\* UsageAccountant::flush, as an effect on the state: drain the accumulator,
\* send in some order, with at most one failing send
FlushEffect(batch, first, log, calls) ==
    /\ first_timestamp' = TakeFirstTimestamp(first)
    /\ usage_batch' = TakeBatch(batch)
    /\ drained' = batch
    /\ drain_logs' = Append(drain_logs, log)
    /\ batch_log' = <<>>
    /\ ndrains' = ndrains + 1
    /\ attempts' = attempts \o calls
    /\ messages' = messages \o Accepted(calls)

FlushCalls(batch, by) ==
    {SendLoop(order, batch, fail_at, ndrains + 1, by) :
        order \in Orders(DOMAIN batch),
        fail_at \in IF MayFail(producer)
                    THEN 0..Cardinality(DOMAIN batch) ELSE {0}}

\* Mutant: should_flush is evaluated, and the flush made, before the report
\* is merged, so that the report starts the next batch.
RecordCall_FlushesFirst(current_time, resource_id, app_feature, amount, unit) ==
    /\ pc = "alive"
    /\ ~TruncPanics(current_time, granularity)
    /\ LET should == should_flush(usage_batch, first_timestamp, granularity,
                                  current_time)
           quantized_timestamp == Quantize(current_time, granularity)
           key == UsageKey(quantized_timestamp, resource_id, app_feature,
                           unit)
           entry == EntryOrDefault(IF should THEN EmptyBatch
                                   ELSE usage_batch, key)
           report == Report(current_time, resource_id, app_feature, amount,
                            unit, key)
       IN  /\ ~(AddOverflows(entry[key], amount) /\ overflow_checks)
           /\ usage_batch' =
                 [entry EXCEPT ![key] = AddAssign(entry[key], amount)]
           /\ first_timestamp' =
                 RecordFirstTimestamp(IF should THEN None
                                      ELSE first_timestamp,
                                      quantized_timestamp)
           /\ nrecords' = nrecords + 1
           /\ IF should
              THEN \E calls \in FlushCalls(usage_batch, "record") :
                     /\ drained' = usage_batch
                     /\ drain_logs' = Append(drain_logs, batch_log)
                     /\ batch_log' = <<report>>
                     /\ ndrains' = ndrains + 1
                     /\ attempts' = attempts \o calls
                     /\ messages' = messages \o Accepted(calls)
                     /\ last' = [NoOp EXCEPT !.op = "record",
                                             !.time = current_time,
                                             !.should = TRUE,
                                             !.flushed = TRUE,
                                             !.result = FlushResult(calls),
                                             !.from = Len(attempts)]
              ELSE /\ batch_log' = Append(batch_log, report)
                   /\ last' = [NoOp EXCEPT !.op = "record",
                                           !.time = current_time,
                                           !.from = Len(attempts)]
                   /\ UNCHANGED <<drained, drain_logs, ndrains, attempts,
                                  messages>>
    /\ UNCHANGED <<granularity, producer, overflow_checks, pc>>

\* UsageAccountant::record, lines 75-89, as one call; current_time is what
\* Utc::now() returns
RecordCall(current_time, resource_id, app_feature, amount, unit) ==
    /\ pc = "alive"
    /\ IF TruncPanics(current_time, granularity)
       THEN /\ pc' = "panicked"
            /\ last' = [NoOp EXCEPT !.op = "record", !.time = current_time,
                                    !.result = "panic at unwrap",
                                    !.from = Len(attempts)]
            /\ UNCHANGED <<usage_batch, first_timestamp, batch_log, nrecords,
                           drained, drain_logs, ndrains, attempts, messages>>
       ELSE LET quantized_timestamp == Quantize(current_time, granularity)
                first == RecordFirstTimestamp(first_timestamp,
                                              quantized_timestamp)
                key == UsageKey(quantized_timestamp, resource_id,
                                app_feature, unit)
                entry == EntryOrDefault(usage_batch, key)
                batch == [entry EXCEPT
                            ![key] = AddAssign(entry[key], amount)]
                log == Append(batch_log,
                          Report(current_time, resource_id,
                                 app_feature, amount, unit, key))
                should == should_flush(batch, first, granularity,
                                       current_time)
            IN  IF AddOverflows(entry[key], amount) /\ overflow_checks
                THEN /\ usage_batch' = entry
                     /\ first_timestamp' = first
                     /\ pc' = "panicked"
                     /\ last' = [NoOp EXCEPT !.op = "record",
                                             !.time = current_time,
                                             !.result = "panic",
                                             !.from = Len(attempts)]
                     /\ UNCHANGED <<batch_log, nrecords, drained, drain_logs,
                                    ndrains, attempts, messages>>
                ELSE /\ nrecords' = nrecords + 1
                     /\ pc' = pc
                     /\ IF should
                        THEN \E calls \in FlushCalls(batch, "record") :
                               /\ FlushEffect(batch, first, log, calls)
                               /\ last' = [op |-> "record",
                                           time |-> current_time,
                                           should |-> should,
                                           flushed |-> TRUE,
                                           result |-> FlushResult(calls),
                                           from |-> Len(attempts),
                                           skipped |-> {}]
                        ELSE /\ usage_batch' = batch
                             /\ first_timestamp' = first
                             /\ batch_log' = log
                             /\ last' = [op |-> "record",
                                         time |-> current_time,
                                         should |-> should,
                                         flushed |-> FALSE,
                                         result |-> "Ok",
                                         from |-> Len(attempts),
                                         skipped |-> {}]
                             /\ UNCHANGED <<drained, drain_logs, ndrains,
                                            attempts, messages>>
    /\ UNCHANGED <<granularity, producer, overflow_checks>>

\* UsageAccountant::record called by the client, a bounded number of times
Record(current_time, resource_id, app_feature, amount, unit) ==
    /\ nrecords < MaxRecords
    /\ RecordCall(current_time, resource_id, app_feature, amount, unit)

\* UsageAccountant::flush, lines 95-111, called by the client
Flush ==
    /\ pc = "alive"
    /\ ndrains < MaxDrains
    /\ \E calls \in FlushCalls(usage_batch, "flush") :
         /\ FlushEffect(usage_batch, first_timestamp, batch_log, calls)
         /\ last' = [NoOp EXCEPT !.op = "flush", !.flushed = TRUE,
                                 !.result = FlushResult(calls),
                                 !.from = Len(attempts)]
    /\ UNCHANGED <<granularity, producer, overflow_checks, pc, nrecords>>

\* Mutant: teardown without the final flush.
Drop_NoFlush ==
    /\ pc \in {"alive", "panicked"}
    /\ pc' = "dropped"
    /\ last' = [NoOp EXCEPT !.op = "drop", !.result = "()",
                            !.from = Len(attempts)]
    /\ UNCHANGED <<usage_batch, granularity, first_timestamp, messages,
                   producer, overflow_checks, batch_log, drained, drain_logs,
                   attempts, nrecords, ndrains>>

\* Drop for UsageAccountant, lines 114-118: at scope exit or while a panic
\* unwinds; the Result of the flush is discarded
Drop ==
    /\ pc \in {"alive", "panicked"}
    /\ pc' = "dropped"
    /\ \E calls \in FlushCalls(usage_batch, "drop") :
         /\ FlushEffect(usage_batch, first_timestamp, batch_log, calls)
         /\ last' = [NoOp EXCEPT !.op = "drop", !.flushed = TRUE,
                                 !.result = "()",
                                 !.from = Len(attempts)]
    /\ UNCHANGED <<granularity, producer, overflow_checks, nrecords>>

Next ==
    \/ \E current_time \in Times, source \in Sources, amount \in Amounts :
          Record(current_time, source[1], source[2], amount, source[3])
    \/ Flush
    \/ Drop

Spec == Init /\ [][Next]_vars

----------------------------------------------------------------------------
(* The end-to-end scenario: a UsageAccountant with a granularity of one
   minute and three reports made by its client. *)

\* accumulator.rs, line 34: the granularity in seconds, also the one of the
\* scenario
DefaultGranularitySeconds == 60

ScenarioGranularity == DefaultGranularitySeconds * TicksPerSecond

\* The reports in the order the client makes them: `at` is the reading of
\* the clock in seconds after 22:15:00, an instant that is a whole number of
\* minutes after the Unix epoch; amounts are in units of 50.
ScenarioReports ==
    <<[at |-> 25, app_feature |-> "f1", amount |-> 2],
      [at |-> 45, app_feature |-> "f1", amount |-> 4],
      [at |-> 105, app_feature |-> "f2", amount |-> 1]>>

\* UsageAccountant::new(producer, Some(Duration::seconds(60)))
InitScenario ==
    /\ usage_batch = EmptyBatch
    /\ granularity = ScenarioGranularity
    /\ first_timestamp = None
    /\ messages = <<>>
    /\ producer \in Producers
    /\ overflow_checks \in BOOLEAN
    /\ pc = "alive"
    /\ batch_log = <<>>
    /\ drained = EmptyBatch
    /\ drain_logs = <<>>
    /\ attempts = <<>>
    /\ nrecords = 0
    /\ ndrains = 0
    /\ last = NoOp

\* The next UsageAccountant::record of the scenario, made when the clock
\* reads the time of the report
ScenarioRecord ==
    /\ nrecords < Len(ScenarioReports)
    /\ LET report == ScenarioReports[nrecords + 1]
       IN  RecordCall(report.at * TicksPerSecond, "r1", report.app_feature,
                      report.amount, "Bytes")

\* The client may also call flush at any moment and drop the accountant.
NextScenario ==
    \/ ScenarioRecord
    \/ Flush
    \/ Drop

SpecScenario == InitScenario /\ [][NextScenario]_vars

----------------------------------------------------------------------------
(* DummyProducer (src/src/producer.rs), used on its own *)

MaxSends == 2

\* The values of producer::Message
ProducerMessages ==
    {[timestamp |-> timestamp(t), shared_resource_id |-> source[1],
      app_feature |-> source[2], usage_unit |-> source[3],
      amount |-> amount] :
        t \in Times, source \in Sources, amount \in Amounts}

\* Mutant: the amount of the stored message is not the one that was sent.
send_AltersAmount(stored, message) ==
    [result |-> "Ok",
     messages |-> Append(stored, [message EXCEPT !.amount = U64Max - @])]

\* DummyProducer::send, lines 59-62
send(stored, message) ==
    [result |-> "Ok", messages |-> Append(stored, message)]

\* DummyProducer::default()
InitProducer ==
    /\ Init
    /\ producer = "DummyProducer"

\* a call of send on the DummyProducer; the call is kept in attempts
DummySend(message) ==
    /\ pc = "alive"
    /\ Len(attempts) < MaxSends
    /\ LET sent == send(messages, message)
       IN  /\ messages' = sent.messages
           /\ attempts' = Append(attempts,
                             [drain |-> 0, by |-> "send",
                              payload |-> message,
                              ok |-> sent.result = "Ok"])
           /\ last' = [NoOp EXCEPT !.op = "send", !.result = sent.result,
                                   !.from = Len(attempts)]
    /\ UNCHANGED <<usage_batch, granularity, first_timestamp, producer,
                   overflow_checks, pc, batch_log, drained, drain_logs,
                   nrecords, ndrains>>

\* messages.pop().unwrap(), as the test takes a stored message back, lines
\* 82-88
DummyPop ==
    /\ pc = "alive"
    /\ messages # <<>>
    /\ messages' = SubSeq(messages, 1, Len(messages) - 1)
    /\ last' = [NoOp EXCEPT !.op = "pop", !.from = Len(attempts)]
    /\ UNCHANGED <<usage_batch, granularity, first_timestamp, producer,
                   overflow_checks, pc, batch_log, drained, drain_logs,
                   attempts, nrecords, ndrains>>

NextProducer ==
    \/ \E message \in ProducerMessages : DummySend(message)
    \/ DummyPop

SpecProducer == InitProducer /\ [][NextProducer]_vars

----------------------------------------------------------------------------
(* UsageAccountant::flush with serde_json::to_vec taken by its signature, a
   Result that can be an Err.  For a Message it never is one (to_vec above),
   so this specification is the only one in which the else side of
   `if let Ok(payload)` at line 106 of flush is taken. *)

\* serde_json::to_vec(&message) as a Result: an Err when `fails`
to_vec_Result(message, fails) ==
    IF fails THEN [ok |-> FALSE, payload |-> <<>>] ELSE to_vec(message)

\* Mutant: the loop ends at an entry that cannot be serialized.
RECURSIVE SendLoopSerde_Ends(_, _, _, _, _, _)
SendLoopSerde_Ends(order, flushed_content, fail_at, drain, by, unserializable) ==
    IF order = <<>>
    THEN <<>>
    ELSE LET key == Head(order)
             message == Message(key, flushed_content[key])
             ser == to_vec_Result(message, key \in unserializable)
             call == [drain |-> drain, by |-> by, key |-> key,
                      payload |-> ser.payload, ok |-> fail_at # 1]
         IN  IF ser.ok
             THEN IF fail_at = 1
                  THEN <<call>>
                  ELSE <<call>> \o
                       SendLoopSerde_Ends(Tail(order), flushed_content,
                                IF fail_at = 0 THEN 0 ELSE fail_at - 1,
                                drain, by, unserializable)
             ELSE <<>>

\* flush(), lines 97-109, as SendLoop, when to_vec returns an Err for the
\* entries whose key is in `unserializable`
RECURSIVE SendLoopSerde(_, _, _, _, _, _)
SendLoopSerde(order, flushed_content, fail_at, drain, by, unserializable) ==
    IF order = <<>>
    THEN <<>>
    ELSE LET key == Head(order)
             message == Message(key, flushed_content[key])
             ser == to_vec_Result(message, key \in unserializable)
             call == [drain |-> drain, by |-> by, key |-> key,
                      payload |-> ser.payload, ok |-> fail_at # 1]
         IN  IF ser.ok
             THEN IF fail_at = 1
                  THEN <<call>>
                  ELSE <<call>> \o
                       SendLoopSerde(Tail(order), flushed_content,
                                IF fail_at = 0 THEN 0 ELSE fail_at - 1,
                                drain, by, unserializable)
             ELSE SendLoopSerde(Tail(order), flushed_content, fail_at,
                                 drain, by, unserializable)

FlushCallsSerde(batch, by, unserializable) ==
    {SendLoopSerde(order, batch, fail_at, ndrains + 1, by, unserializable) :
        order \in Orders(DOMAIN batch),
        fail_at \in IF MayFail(producer)
                    THEN 0..Cardinality(DOMAIN batch \ unserializable)
                    ELSE {0}}

\* UsageAccountant::flush, lines 95-111, called by the client, for every set
\* of entries that to_vec turns down
FlushSerde ==
    /\ pc = "alive"
    /\ ndrains < MaxDrains
    /\ \E unserializable \in SUBSET DOMAIN usage_batch :
         \E calls \in FlushCallsSerde(usage_batch, "flush", unserializable) :
           /\ FlushEffect(usage_batch, first_timestamp, batch_log, calls)
           /\ last' = [NoOp EXCEPT !.op = "flush", !.flushed = TRUE,
                                   !.result = FlushResult(calls),
                                   !.from = Len(attempts),
                                   !.skipped = unserializable]
    /\ UNCHANGED <<granularity, producer, overflow_checks, pc, nrecords>>

NextSerde ==
    \/ \E current_time \in Times, source \in Sources, amount \in Amounts :
          Record(current_time, source[1], source[2], amount, source[3])
    \/ FlushSerde

SpecSerde == Init /\ [][NextSerde]_vars

----------------------------------------------------------------------------
(* What the properties speak of, stated without the program's operators *)

\* The quantization windows of granularity g > 0 are [i*g, (i+1)*g).
WindowIndexes == (MinTime - 1)..(MaxTime + 1)

\* q is the start of the window that holds t (g = 0: no quantization)
IsBucketStart(q, t, g) ==
    IF g = 0 THEN q = t
    ELSE /\ q <= t
         /\ t < q + g
         /\ \E i \in WindowIndexes : q = i * g

BucketStart(t, g) ==
    CHOOSE q \in (MinTime - MaxGranularity)..MaxTime : IsBucketStart(q, t, g)

SameWindow(t1, t2, g) ==
    IF g = 0 THEN t1 = t2
    ELSE \E i \in WindowIndexes : /\ i * g <= t1 /\ t1 < (i + 1) * g
                                  /\ i * g <= t2 /\ t2 < (i + 1) * g

SameSource(a, b) ==
    /\ a.resource_id = b.resource_id
    /\ a.app_feature = b.app_feature
    /\ a.unit = b.unit

\* the report maps to the key
MapsTo(report, key, g) ==
    /\ SameSource(report, key)
    /\ IsBucketStart(key.quantized_timestamp, report.usage_time, g)

RECURSIVE SumFor(_, _, _)
\* the exact sum of the amounts of the reports of log that map to key
SumFor(log, key, g) ==
    IF log = <<>> THEN 0
    ELSE (IF MapsTo(Head(log), key, g) THEN Head(log).amount ELSE 0)
         + SumFor(Tail(log), key, g)

LastDrainLog == drain_logs[Len(drain_logs)]

\* the Producer.send calls of the last operation
LastCalls == SubSeq(attempts, last.from + 1, Len(attempts))

----------------------------------------------------------------------------
(* Properties of the UsageAccumulator, under SpecAccumulator *)

\* C1: Merge correctness.  The map a flush returns gives, for each key, the
\* exact sum of the amounts of the record calls since the previous drain that
\* map to the key, and has no key to which no record call maps.
C1_MergeCorrectness ==
    last.op = "flush" =>
        /\ \A key \in DOMAIN drained :
              /\ drained[key] = SumFor(LastDrainLog, key, granularity)
              /\ \E i \in 1..Len(LastDrainLog) :
                    MapsTo(LastDrainLog[i], key, granularity)
        /\ \A i \in 1..Len(LastDrainLog) :
              \E key \in DOMAIN drained :
                 MapsTo(LastDrainLog[i], key, granularity)

\* C2: Bucket separation.  Two record calls of a batch went to the same table
\* entry if and only if their resource_id, app_feature and unit are equal and
\* their timestamps lie in the same quantization window, and the table has
\* one entry for each group of such reports.
C2_BucketSeparation ==
    /\ \A i, j \in 1..Len(batch_log) :
          (batch_log[i].key = batch_log[j].key)
             <=> (/\ SameSource(batch_log[i], batch_log[j])
                  /\ SameWindow(batch_log[i].usage_time,
                                batch_log[j].usage_time, granularity))
    /\ DOMAIN usage_batch = {batch_log[i].key : i \in 1..Len(batch_log)}

\* Two reports with the same source and adjacent timestamps that lie in
\* different windows, in two entries.
C2_Witness ==
    /\ Len(batch_log) = 2
    /\ SameSource(batch_log[1], batch_log[2])
    /\ granularity > 0
    /\ batch_log[1].usage_time + 1 = batch_log[2].usage_time
    /\ Cardinality(DOMAIN usage_batch) = 2

\* C3: Flush-readiness threshold.  With at least one record since the last
\* drain, should_flush(t) is true exactly when t minus the raw timestamp of
\* the first report is at least the granularity.
C3_FlushReadinessThreshold ==
    (last.op = "should_flush" /\ batch_log # <<>>) =>
        (last.should <=>
            last.time - batch_log[1].usage_time >= granularity)

C10_DrainAtomicity ==
    /\ last.op = "flush" =>
          /\ usage_batch = EmptyBatch
          /\ first_timestamp = None
          /\ DOMAIN drained
                = {LastDrainLog[i].key : i \in 1..Len(LastDrainLog)}
    /\ (ndrains > 0 /\ batch_log # <<>>) =>
          first_timestamp
             = Some(BucketStart(batch_log[1].usage_time, granularity))

\* A record after a drain of a non-empty table started a marker that differs
\* from the marker of the drained batch.
C10_Witness ==
    /\ ndrains > 0
    /\ last.op = "record"
    /\ Len(batch_log) = 1
    /\ LastDrainLog # <<>>
    /\ first_timestamp # None
    /\ BucketStart(LastDrainLog[1].usage_time, granularity)
          # Unwrap(first_timestamp)

----------------------------------------------------------------------------
(* Properties of the UsageAccountant, under Spec *)

\* the keys of the reports of drain number d
DrainKeys(d) == {drain_logs[d][i].key : i \in 1..Len(drain_logs[d])}

DrainFailed(d) ==
    \E i \in 1..Len(attempts) : attempts[i].drain = d /\ ~attempts[i].ok

CallsOfDrain(d) == {i \in 1..Len(attempts) : attempts[i].drain = d}

\* the form of a unit on the wire
WireUnit(unit) ==
    IF unit = "Milliseconds" THEN "milliseconds"
    ELSE IF unit = "Bytes" THEN "bytes" ELSE "bytes_sec"

\* C5: a failing send ends its flush, which returns the error; the entries of
\* that drain that were not sent are not sent by any later operation and are
\* not in the accumulator: after the failed flush the table is empty and the
\* marker clear, the table only ever holds entries of reports recorded since
\* the last drain, and every send carries an entry of its own drain.
C5_SendFailureDropsRest ==
    /\ (last.op \in {"record", "flush"} /\ Failed(LastCalls)) =>
          /\ last.result = "Err"
          /\ usage_batch = EmptyBatch
          /\ first_timestamp = None
    /\ \A i, j \in 1..Len(attempts) :
          (~attempts[i].ok /\ attempts[j].drain = attempts[i].drain)
             => j <= i
    /\ \A j \in 1..Len(attempts) :
          attempts[j].key \in DrainKeys(attempts[j].drain)
    /\ DOMAIN usage_batch = {batch_log[i].key : i \in 1..Len(batch_log)}

\* A flush failed before it had sent every entry of its drain, and the
\* accountant has since been torn down.
C5_Witness ==
    /\ pc = "dropped"
    /\ \E d \in 1..(ndrains - 1) :
          /\ DrainFailed(d)
          /\ Cardinality(CallsOfDrain(d)) < Cardinality(DrainKeys(d))

\* The first two Producer.send calls belong to a two-entry flush that a
\* record triggered; the first was accepted and the second failed.
C6_Scenario ==
    /\ Len(attempts) >= 2
    /\ attempts[1].by = "record"
    /\ attempts[2].drain = attempts[1].drain
    /\ attempts[1].ok
    /\ ~attempts[2].ok
    /\ Cardinality(DrainKeys(attempts[1].drain)) = 2

\* C6: in that scenario the record returns the error of the second send, only
\* the first entry has been accepted, and no later operation makes a send for
\* that drain again: every later send carries an entry of a later drain.
C6_SecondSendFails ==
    C6_Scenario =>
        /\ (last.op = "record" /\ last.from = 0) =>
              /\ last.result = "Err"
              /\ messages = <<attempts[1].payload>>
              /\ usage_batch = EmptyBatch
        /\ \A j \in 3..Len(attempts) :
              /\ attempts[j].drain > attempts[1].drain
              /\ attempts[j].key \in DrainKeys(attempts[j].drain)
        /\ attempts[1].key # attempts[2].key

\* The scenario happened and the accountant was torn down afterwards.
C6_Witness ==
    /\ C6_Scenario
    /\ pc = "dropped"
    /\ last.op = "drop"

RECURSIVE ReportCount(_)
ReportCount(logs) ==
    IF logs = <<>> THEN 0 ELSE Len(Head(logs)) + ReportCount(Tail(logs))

\* C7: after teardown exactly one final flush has been made: the table is
\* empty, every entry that was in the table is handed to Producer.send once,
\* up to the first failing send, and the error is discarded.  If no send ever
\* failed, every report of a record call that returned is in an accepted
\* message.
C7_TeardownFlush ==
    pc = "dropped" =>
        /\ last.op = "drop"
        /\ last.result = "()"
        /\ usage_batch = EmptyBatch
        /\ first_timestamp = None
        /\ ndrains >= 1
        /\ Len(drain_logs) = ndrains
        /\ \A i \in 1..Len(attempts) :
              attempts[i].by = "drop" =>
                 (attempts[i].drain = ndrains /\ i > last.from)
        /\ \A i \in 1..Len(LastCalls) :
              /\ LastCalls[i].by = "drop"
              /\ LastCalls[i].key \in DrainKeys(ndrains)
              /\ i < Len(LastCalls) => LastCalls[i].ok
              /\ \A j \in 1..Len(LastCalls) :
                    LastCalls[i].key = LastCalls[j].key => i = j
        /\ ~Failed(LastCalls) =>
              {LastCalls[i].key : i \in 1..Len(LastCalls)} = DrainKeys(ndrains)
        /\ (\A j \in 1..Len(attempts) : attempts[j].ok) =>
              /\ ReportCount(drain_logs) = nrecords
              /\ \A d \in 1..Len(drain_logs) :
                    \A i \in 1..Len(drain_logs[d]) :
                       \E j \in 1..Len(attempts) :
                          /\ attempts[j].drain = d
                          /\ attempts[j].ok
                          /\ attempts[j].key = drain_logs[d][i].key

\* Teardown of an accountant with two entries in its table: both were sent.
C7_Witness ==
    /\ pc = "dropped"
    /\ Len(LastCalls) = 2
    /\ ~Failed(LastCalls)
    /\ nrecords = 2

\* the batch the last record call merged its report into
LastRecordLog == IF last.flushed THEN LastDrainLog ELSE batch_log

\* C8: record merges the report with the current time, evaluates should_flush
\* with that time on the accumulator that holds the report, and flushes if
\* and only if it is true; without a flush it makes no send and returns Ok;
\* it returns an error only when a send of the flush it triggered failed.
C8_RecordContract ==
    (last.op = "record" /\ last.result # "panic") =>
        /\ LastRecordLog # <<>>
        /\ LastRecordLog[Len(LastRecordLog)].usage_time = last.time
        /\ last.should <=>
              (last.time
                 - BucketStart(LastRecordLog[1].usage_time, granularity)
               >= granularity)
        /\ last.flushed <=> last.should
        /\ ~last.should =>
              /\ Len(attempts) = last.from
              /\ last.result = "Ok"
        /\ last.result = "Err" => (last.flushed /\ Failed(LastCalls))
        /\ last.result \in {"Ok", "Err"}

\* A record that was not due made no send and returned Ok with a Producer
\* that has already failed a send.
C8_Witness ==
    /\ last.op = "record"
    /\ ~last.should
    /\ last.result = "Ok"
    /\ \E j \in 1..Len(attempts) : ~attempts[j].ok

\* C9: with a Producer that does not fail, a flush makes one send for each
\* entry it drained and no other; the message carries the bucket start of the
\* entry in whole seconds, its resource id, app feature, unit and amount.  A
\* flush with no record since the last drain makes no send.
C9_FlushSendsEachEntryOnce ==
    (last.op = "flush" /\ ~MayFail(producer)) =>
        /\ last.result = "Ok"
        /\ DOMAIN drained = DrainKeys(ndrains)
        /\ Len(LastCalls) = Cardinality(DrainKeys(ndrains))
        /\ \A i \in 1..Len(LastDrainLog) :
              LET report == LastDrainLog[i]
                  sent == {j \in 1..Len(LastCalls) :
                              LastCalls[j].key = report.key}
              IN  /\ Cardinality(sent) = 1
                  /\ \A j \in sent :
                        /\ LastCalls[j].ok
                        /\ LastCalls[j].payload =
                             [timestamp |->
                                 BucketStart(report.usage_time, granularity)
                                    \div TicksPerSecond,
                              shared_resource_id |-> report.resource_id,
                              app_feature |-> report.app_feature,
                              usage_unit |-> WireUnit(report.unit),
                              amount |-> drained[report.key]]
        /\ LastDrainLog = <<>> => LastCalls = <<>>
        /\ Len(messages) = Len(attempts)
        /\ \A j \in 1..Len(LastCalls) :
              messages[last.from + j] = LastCalls[j].payload

\* A flush of two entries made two sends, one of them with a bucket start
\* that is not a whole second.
C9_Witness ==
    /\ last.op = "flush"
    /\ ~MayFail(producer)
    /\ Len(LastCalls) = 2
    /\ \E j \in 1..Len(LastCalls) :
          LastCalls[j].key.quantized_timestamp
             # LastCalls[j].payload.timestamp * TicksPerSecond

\* A second flush in a row made no send.
C9_WitnessSecondFlush ==
    /\ last.op = "flush"
    /\ ~MayFail(producer)
    /\ ndrains = 2
    /\ drain_logs[1] # <<>>
    /\ LastDrainLog = <<>>
    /\ messages # <<>>

----------------------------------------------------------------------------
(* Properties settled next: accumulator, producer and accountant *)

\* C11: Idempotent empty flush.  A UsageAccumulator.flush made when no record
\* was made since creation or since the last flush returns an empty map,
\* without error, and leaves the table, the marker and the granularity as
\* they were; the second of two flushes in a row returns an empty map.
C11_IdempotentEmptyFlush ==
    [][(ndrains' = ndrains + 1 /\ batch_log = <<>>) =>
          /\ drained' = EmptyBatch
          /\ last'.op = "flush" /\ last'.result = "Ok"
          /\ pc' = "alive"
          /\ usage_batch' = usage_batch /\ usage_batch' = EmptyBatch
          /\ first_timestamp' = first_timestamp /\ first_timestamp' = None
          /\ granularity' = granularity]_vars

\* Two flushes in a row: the first returned entries, the second none.
C11_Witness ==
    /\ last.op = "flush"
    /\ ndrains = 2
    /\ drain_logs[1] # <<>>
    /\ drain_logs[2] = <<>>
    /\ drained = EmptyBatch

\* C12: in every reachable state of the accumulator the marker
\* first_timestamp is set exactly when the table has at least one entry, and
\* exactly when at least one record was made since the last drain; a record
\* of amount 0 counts.
C12_MarkerIffNonEmpty ==
    /\ (first_timestamp # None) <=> (DOMAIN usage_batch # {})
    /\ (first_timestamp # None) <=> (batch_log # <<>>)
    /\ \A i \in 1..Len(batch_log) : batch_log[i].key \in DOMAIN usage_batch

\* Only a record of amount 0 was made since the last drain: the marker is
\* set and the table has an entry of amount 0.
C12_Witness ==
    /\ ndrains = 1
    /\ Len(batch_log) = 1
    /\ batch_log[1].amount = 0
    /\ first_timestamp # None
    /\ \E key \in DOMAIN usage_batch : usage_batch[key] = 0

\* C13: with granularity g > 0 the quantized_timestamp of every key in the
\* table is an exact multiple of g and is the start of the bucket of the
\* report it came from, quantized_timestamp <= usage_time <
\* quantized_timestamp + g, also for instants before the Unix epoch; with
\* g = 0 it equals the raw usage_time.
C13_QuantizedTimestamp ==
    /\ \A key \in DOMAIN usage_batch :
          \E i \in 1..Len(batch_log) : batch_log[i].key = key
    /\ \A i \in 1..Len(batch_log) :
          LET q == batch_log[i].key.quantized_timestamp
              usage_time == batch_log[i].usage_time
          IN  IF granularity > 0
              THEN /\ \E n \in WindowIndexes : q = n * granularity
                   /\ q <= usage_time
                   /\ usage_time < q + granularity
              ELSE q = usage_time

\* A report made before the Unix epoch, off the bucket boundary, and one made
\* after it are in the table, with a granularity of more than one tick.
C13_Witness ==
    /\ granularity > 1
    /\ Len(batch_log) = 2
    /\ batch_log[1].usage_time < 0
    /\ batch_log[1].key.quantized_timestamp < batch_log[1].usage_time
    /\ batch_log[2].usage_time > 0
    /\ batch_log[2].key.quantized_timestamp < batch_log[2].usage_time
    /\ batch_log[1].key \in DOMAIN usage_batch
    /\ batch_log[2].key \in DOMAIN usage_batch

(* The end-to-end scenario, under SpecScenario *)

\* the keys of the two buckets of the scenario, 22:15:00 and 22:16:00
ScenarioKeyF1 == UsageKey(0, "r1", "f1", "Bytes")

ScenarioKeyF2 == UsageKey(ScenarioGranularity, "r1", "f2", "Bytes")

\* the features of the reports of a log, in the order they were made
FeaturesOf(log) == [i \in 1..Len(log) |-> log[i].app_feature]

C14_WitnessEarlyFlush ==
    /\ nrecords = 3
    /\ ndrains = 2
    /\ FeaturesOf(drain_logs[1]) = <<"f1", "f1">>
    /\ FeaturesOf(drain_logs[2]) = <<"f2">>
    /\ last.op = "flush"
    /\ drained = [key \in {ScenarioKeyF2} |-> 1]

(* Properties of the UsageAccumulator, under SpecAccumulator *)

\* C15: with granularity zero a record never fails in the truncation step and
\* uses the raw usage_time as the bucket timestamp: two reports with distinct
\* raw timestamps land in distinct entries even when resource_id,
\* app_feature and unit are identical, and reports with the same raw
\* timestamp and the same fields still merge into one entry.
C15_ZeroGranularity ==
    granularity = 0 =>
        /\ last.result # "panic at unwrap"
        /\ \A i \in 1..Len(batch_log) :
              /\ batch_log[i].key.quantized_timestamp = batch_log[i].usage_time
              /\ batch_log[i].key \in DOMAIN usage_batch
        /\ \A i, j \in 1..Len(batch_log) :
              (batch_log[i].key = batch_log[j].key) <=>
                 /\ batch_log[i].usage_time = batch_log[j].usage_time
                 /\ SameSource(batch_log[i], batch_log[j])
        /\ Cardinality(DOMAIN usage_batch) =
              Cardinality({<<batch_log[i].usage_time,
                             batch_log[i].resource_id,
                             batch_log[i].app_feature,
                             batch_log[i].unit>> : i \in 1..Len(batch_log)})

\* With granularity zero, two reports of one source one tick apart, within
\* one second, are in two entries.
C15_Witness ==
    /\ granularity = 0
    /\ Len(batch_log) = 2
    /\ SameSource(batch_log[1], batch_log[2])
    /\ batch_log[2].usage_time = batch_log[1].usage_time + 1
    /\ timestamp(batch_log[1].usage_time) = timestamp(batch_log[2].usage_time)
    /\ Cardinality(DOMAIN usage_batch) = 2

\* With granularity zero, two reports of one source at the same instant are
\* merged into one entry.
C15_WitnessMerge ==
    /\ granularity = 0
    /\ Len(batch_log) = 2
    /\ SameSource(batch_log[1], batch_log[2])
    /\ batch_log[2].usage_time = batch_log[1].usage_time
    /\ batch_log[1].amount = 1 /\ batch_log[2].amount = 1
    /\ Cardinality(DOMAIN usage_batch) = 1
    /\ \A key \in DOMAIN usage_batch : usage_batch[key] = 2

(* The DummyProducer, under SpecProducer *)

C17_ShouldFlushIsPure ==
    [][last'.op = "should_flush" =>
          /\ usage_batch' = usage_batch
          /\ first_timestamp' = first_timestamp
          /\ granularity' = granularity
          /\ batch_log' = batch_log /\ ndrains' = ndrains
          /\ last.op = "should_flush" =>
                /\ last'.time = last.time => last'.should = last.should
                /\ (last'.time >= last.time /\ last.should) => last'.should
                /\ (last'.time <= last.time /\ ~last.should) => ~last'.should
    ]_vars

\* should_flush was true on an accumulator that holds an entry, at a time
\* that is not the latest one: it can be called again, then or later.
C17_Witness ==
    /\ last.op = "should_flush"
    /\ last.should
    /\ last.time < MaxTime
    /\ DOMAIN usage_batch # {}
    /\ first_timestamp # None

(* The flush of the UsageAccountant, under SpecSerde *)

\* C18: when the serialization of one drained entry fails during a flush,
\* only that entry is skipped: no send is made for it, no error is returned
\* because of it, and the remaining entries of the drained batch are still
\* passed to Producer.send, up to the first failing send.
C18_SerializationFailureSkips ==
    last.op = "flush" =>
        LET sent == {LastCalls[i].key : i \in 1..Len(LastCalls)}
            remaining == DOMAIN drained \ last.skipped
        IN  /\ last.skipped \subseteq DOMAIN drained
            /\ sent \cap last.skipped = {}
            /\ sent \subseteq remaining
            /\ Cardinality(sent) = Len(LastCalls)
            /\ (last.result = "Err") <=> Failed(LastCalls)
            /\ ~Failed(LastCalls) => sent = remaining
            /\ \A i \in 1..Len(LastCalls) :
                  /\ LastCalls[i].payload.amount = drained[LastCalls[i].key]
                  /\ i < Len(LastCalls) => LastCalls[i].ok
            /\ usage_batch = EmptyBatch

\* A flush drained two entries; one could not be serialized, the other was
\* sent and accepted, and the flush returned Ok.
C18_Witness ==
    /\ last.op = "flush"
    /\ Cardinality(DOMAIN drained) = 2
    /\ Cardinality(last.skipped) = 1
    /\ Len(LastCalls) = 1
    /\ LastCalls[1].ok
    /\ LastCalls[1].key \notin last.skipped
    /\ last.result = "Ok"

(* Properties of the UsageAccumulator, under SpecAccumulator (overflow) *)

\* C19: an overflow of an amount never wraps silently.  When the sum of the
\* amounts recorded for a key exceeds the largest representable value, the
\* stored amount saturates at that value, or the record fails loudly and no
\* report is added; the stored amount is never the sum reduced modulo 2^64,
\* so that within a batch it never decreases.
C19_NoSilentWrap ==
    \A key \in DOMAIN usage_batch :
        LET sum == SumFor(batch_log, key, granularity)
        IN  usage_batch[key] = IF sum > U64Max THEN U64Max ELSE sum

\* C19, the second half on its own: within a batch the stored amount of a
\* key never decreases.
C19_NeverDecreases ==
    [][(batch_log' # <<>> /\ Len(batch_log') >= Len(batch_log)) =>
          \A key \in DOMAIN usage_batch :
             usage_batch'[key] >= usage_batch[key]]_vars

(* Properties of the UsageAccountant, under Spec (continued) *)

\* C20: the report that makes a flush due is part of that flush.  After any
\* UsageAccountant.record in which should_flush was true, the table is empty
\* and the marker is clear, also when a send failed; the report just
\* recorded is in the batch that was drained and does not start the next
\* batch.
C20_TriggeringReportIsFlushed ==
    (last.op = "record" /\ last.should) =>
        /\ last.flushed
        /\ usage_batch = EmptyBatch
        /\ first_timestamp = None
        /\ batch_log = <<>>
        /\ ndrains >= 1 /\ Len(drain_logs) = ndrains
        /\ LastDrainLog # <<>>
        /\ LET report == LastDrainLog[Len(LastDrainLog)]
           IN  /\ report.usage_time = last.time
               /\ report.key \in DOMAIN drained

\* A record made a flush of two entries due, and the first send of that
\* flush failed.
C20_Witness ==
    /\ last.op = "record"
    /\ last.should
    /\ last.result = "Err"
    /\ Cardinality(DOMAIN drained) = 2
    /\ Len(LastCalls) = 1
    /\ usage_batch = EmptyBatch
    /\ first_timestamp = None

(* Properties of the UsageAccountant, under Spec (granularity and flush) *)

\* C21: with granularity zero every UsageAccountant.record call flushes
\* immediately, so that the table is empty after every record and each such
\* flush sends exactly one message; with granularity g > 0 a record into an
\* empty accumulator never triggers a flush in that same call.
C21_ImmediateFlushAtZero ==
    /\ granularity = 0 =>
          /\ usage_batch = EmptyBatch /\ first_timestamp = None
          /\ pc # "panicked"
          /\ last.op = "record" =>
                /\ last.should /\ last.flushed
                /\ Len(LastDrainLog) = 1
                /\ LastDrainLog[1].usage_time = last.time
                /\ Cardinality(DOMAIN drained) = 1
                /\ Len(LastCalls) = 1
                /\ LastCalls[1].payload.amount = LastDrainLog[1].amount
    /\ (granularity > 0 /\ last.op = "record" /\ last.result # "panic"
          /\ Len(LastRecordLog) = 1) =>
          /\ ~last.should /\ ~last.flushed
          /\ LastCalls = <<>>
          /\ Cardinality(DOMAIN usage_batch) = 1
          /\ first_timestamp # None

\* With granularity zero two records were made; each made one send, the
\* second one of an amount that is not zero.
C21_Witness ==
    /\ granularity = 0
    /\ last.op = "record"
    /\ nrecords = 2
    /\ ndrains = 2
    /\ Len(attempts) = 2
    /\ LastCalls[1].payload.amount = 1
    /\ usage_batch = EmptyBatch

\* With a granularity of more than one tick a record into an empty
\* accumulator, off the bucket boundary, made no flush.
C21_WitnessNoFlush ==
    /\ granularity > 1
    /\ last.op = "record"
    /\ ~last.flushed
    /\ Len(batch_log) = 1
    /\ batch_log[1].key.quantized_timestamp < last.time

\* what identifies a message on the wire
WireIdentity(payload) ==
    <<payload.timestamp, payload.shared_resource_id, payload.app_feature,
      payload.usage_unit>>

\* C22: the messages sent by one flush are pairwise distinct in (timestamp,
\* shared_resource_id, app_feature, usage_unit): the conversion of the
\* quantized timestamp of a key to whole seconds never maps two distinct keys
\* of the table to the same wire identity, for every granularity, zero and
\* granularities below one second included.
C22_WireIdentitiesDistinct ==
    \A i, j \in 1..Len(attempts) :
        (i # j /\ attempts[i].drain = attempts[j].drain) =>
            /\ attempts[i].key # attempts[j].key
            /\ WireIdentity(attempts[i].payload)
                  # WireIdentity(attempts[j].payload)

\* C22 for the granularities that are a whole number of seconds, and for
\* granularity zero, with which a flush of the accountant never holds more
\* than one entry: there the wire identities of one flush are distinct.
C22_WholeSecondGranularity ==
    (granularity % TicksPerSecond = 0) => C22_WireIdentitiesDistinct

(* Conservation of the amounts, under Spec *)

RECURSIVE RecordedIn(_, _)
\* the exact sum of the amounts of the reports of the batches `logs` that
\* map to key
RecordedIn(logs, key) ==
    IF logs = <<>> THEN 0
    ELSE SumFor(Head(logs), key, granularity) + RecordedIn(Tail(logs), key)

\* the total amount recorded for key by the record calls that returned
Recorded(key) ==
    RecordedIn(drain_logs, key) + SumFor(batch_log, key, granularity)

RECURSIVE SentIn(_, _)
\* the total amount the successful Producer.send calls of `calls` were given
\* for key
SentIn(calls, key) ==
    IF calls = <<>> THEN 0
    ELSE (IF Head(calls).ok /\ Head(calls).key = key
          THEN Head(calls).payload.amount ELSE 0)
         + SentIn(Tail(calls), key)

InTable(key) == IF key \in DOMAIN usage_batch THEN usage_batch[key] ELSE 0

\* every key that was ever in the table
KeysSeen ==
    DOMAIN usage_batch
       \cup {batch_log[i].key : i \in 1..Len(batch_log)}
       \cup UNION {DrainKeys(d) : d \in 1..Len(drain_logs)}
       \cup {attempts[i].key : i \in 1..Len(attempts)}

NoSendFailed == \A i \in 1..Len(attempts) : attempts[i].ok

\* C23: conservation.  After any sequence of record, flush and teardown on
\* one UsageAccountant, for every key the total amount passed to successful
\* Producer.send calls plus the amount in the table never exceeds the total
\* amount recorded for the key, and the two are equal whenever no send has
\* failed (no serialization is skipped under Spec).
C23_Conservation ==
    \A key \in KeysSeen :
        /\ SentIn(attempts, key) + InTable(key) <= Recorded(key)
        /\ NoSendFailed =>
              SentIn(attempts, key) + InTable(key) = Recorded(key)

\* C23, the first half on its own: nothing is duplicated or invented.
C23_NeverExceeds ==
    \A key \in KeysSeen :
        SentIn(attempts, key) + InTable(key) <= Recorded(key)

\* C23 in the builds with overflow checks, where no addition wraps.
C23_WithOverflowChecks == overflow_checks => C23_Conservation

\* Two batches with the same key were sent without a failing send, after
\* teardown: what was sent for the key is what was recorded, in a build with
\* overflow checks.
C23_WitnessConserved ==
    /\ overflow_checks
    /\ pc = "dropped"
    /\ NoSendFailed
    /\ Len(attempts) = 2
    /\ attempts[1].key = attempts[2].key
    /\ SentIn(attempts, attempts[1].key) = 2
    /\ Recorded(attempts[1].key) = 2

====
